---- MODULE Spec2Model ----
(***************************************************************************)
(* Resume screening: the session store (backend/database.py, an SQLite     *)
(* file shared by every request) and the upload pipeline                    *)
(* (backend/app.py, upload_files).                                          *)
(*                                                                          *)
(* Every store method opens its own connection.  Python's sqlite3 opens a   *)
(* transaction before the first INSERT/UPDATE/DELETE of a connection and    *)
(* holds SQLite's write lock until commit(); a connection dropped without   *)
(* commit() rolls back.  SELECT statements run outside a transaction: each  *)
(* one reads the committed database as of the moment it runs.               *)
(***************************************************************************)
EXTENDS Integers, Sequences, FiniteSets, TLC

\* ------------------------------------------------------------------ bounds
MaxSessions == 2      \* save_session calls that may insert a session row
MaxResults == 2       \* longest results list handed to save_session
MaxClock == 1         \* CURRENT_TIMESTAMP takes the values 0..MaxClock (seconds)

Procs == {"p1", "p2"} \* concurrent requests, one connection per store call

\* Python values: a str is a sequence of one-character strings.
PyStr(s) == [type |-> "str", s |-> s]
PyInt(n) == [type |-> "int", n |-> n]
PyList(items) == [type |-> "list", items |-> items]
PyDict(d) == [type |-> "dict", d |-> d]
None == [type |-> "NoneType"]

\* What sqlite3 binds to a parameter: str, int and None (stored as NULL).
\* A list or a dict makes execute() raise.
SqlValue(v) == v.type \in {"str", "int", "NoneType"}
NoProc == "none"

\* Session ids a caller may pass; MaxSessions + 1 is never assigned.
SessionIds == 1..(MaxSessions + 1)
TopNs == (-1)..(MaxResults + 1)

\* ------------------------------------------------------------ store state
VARIABLES
  sessions,         \* committed rows of table sessions
  results,          \* committed rows of table results
  sqlite_sequence,  \* committed AUTOINCREMENT counters, per table
  lock,             \* the request holding SQLite's write lock, or NoProc
  tx,               \* the lock holder's uncommitted view of the three above
  now,              \* wall clock, in seconds
  pc,               \* per request: the statement it is at
  op,               \* per request: the store method or handler it runs
  arg,              \* per request: the call's arguments and locals
  run,              \* per request: the locals of upload_files
  ret,              \* the call that returned or raised in the last step, if any
  issued,           \* history: session ids returned by save_session, in order
  deleted           \* history: ids of the sessions delete_session has removed

vars == <<sessions, results, sqlite_sequence, lock, tx, now, pc, op, arg, run,
          ret, issued, deleted>>

\* ---------------------------------------------------------------- helpers
Min(a, b) == IF a < b THEN a ELSE b

Range(s) == {s[i] : i \in 1..Len(s)}

\* The orders an ORDER BY may produce: every arrangement of the rows S whose
\* keys (key[r] of row r) do not decrease.  SQL leaves the order of rows with equal keys open.
OrderingsBy(S, key) ==
  {s \in [1..Cardinality(S) -> S] :
     /\ \A i, j \in 1..Cardinality(S) : i # j => s[i] # s[j]
     /\ \A i, j \in 1..Cardinality(S) : i < j => key[s[i]] <= key[s[j]]}

\* LIMIT n of SQLite: a negative n means no limit.
Limit(s, n) == IF n < 0 THEN s ELSE SubSeq(s, 1, Min(n, Len(s)))

\* The database as committed, and the empty transaction view.
NoTx == [sessions |-> {}, results |-> {}, sqlite_sequence |-> [sessions |-> 0, results |-> 0]]
Committed == [sessions |-> sessions, results |-> results, sqlite_sequence |-> sqlite_sequence]

\* The locals of upload_files: the job text, the uploaded resume filenames,
\* the JobDescription (a sequence of at most one), the Resume list built so
\* far and the list rank_resumes returned; with them, for the record, the
\* model responses the extractor got, the calls the handler has made so far,
\* what rank_resumes did ("none" before the call, then "ok", "raised" or
\* "malformed") and the call whose exception ended the handler.  On the
\* error page of a request that was turned down, request holds the request;
\* in what an extractor called on its own hands back, text holds its text.
NoRun == [job_text |-> <<>>, resume_files |-> <<>>, job_description |-> <<>>,
          resumes |-> <<>>, ranked_results |-> <<>>, responses |-> <<>>,
          called |-> <<>>, scoring |-> "none", raised_in |-> "",
          request |-> <<>>, text |-> <<>>]

\* A call's arguments and locals.  after_delete records, when
\* get_session_results starts, whether delete_session has already removed
\* the session of that id; issued_before, when save_session starts, how many
\* session ids save_session had returned by then.
NoArg == [session_id |-> 0, results |-> <<>>, i |-> 0, top_n |-> 0,
          include_hidden |-> FALSE, after_delete |-> FALSE, session |-> <<>>,
          issued_before |-> 0]

\* What a call hands back: what was called with which arguments, status "ok"
\* or "raised" (upload_files: "ok" for the results page, "error" for the
\* upload form with an error message), the session id of save_session, the session row of
\* get_session_results (at most one), the session rows of get_all_sessions,
\* the result rows of the two lookups.
NoRet == [op |-> "none", arg |-> NoArg, run |-> NoRun, status |-> "none", error |-> "",
          id |-> 0, session |-> <<>>, sessions |-> <<>>, results |-> <<>>]

\* The literals of app.py 117, 192, 193.
Candidate == <<"C", "a", "n", "d", "i", "d", "a", "t", "e">>
Position == <<"P", "o", "s", "i", "t", "i", "o", "n">>
Company == <<"C", "o", "m", "p", "a", "n", "y">>

\* ------------------------------------------------------------------ text
\* Python str methods on character sequences.
StartsWith(s, pre) == Len(pre) <= Len(s) /\ SubSeq(s, 1, Len(pre)) = pre

\* s.replace(old, new): every non-overlapping occurrence, left to right.
RECURSIVE Replace(_, _, _)
Replace(s, old, new) ==
  IF s = <<>> THEN <<>>
  ELSE IF StartsWith(s, old) THEN new \o Replace(SubSeq(s, Len(old) + 1, Len(s)), old, new)
  ELSE <<Head(s)>> \o Replace(Tail(s), old, new)

Contains(s, c) == \E i \in 1..Len(s) : s[i] = c

\* s.rsplit('.', 1)[1]: what follows the last '.' of a string that has one.
AfterLastDot(s) ==
  LET last == CHOOSE i \in 1..Len(s) : s[i] = "." /\ \A j \in (i + 1)..Len(s) : s[j] # "."
  IN SubSeq(s, last + 1, Len(s))

\* str.lower() on the letters filenames are written with here.
LowerChar(c) ==
  CASE c = "P" -> "p" [] c = "D" -> "d" [] c = "F" -> "f" [] c = "A" -> "a"
    [] OTHER -> c
Lower(s) == [i \in 1..Len(s) |-> LowerChar(s[i])]

\* s[:n]
Prefix(s, n) == SubSeq(s, 1, Min(n, Len(s)))

RECURSIVE Without(_, _)
Without(s, chars) ==
  IF s = <<>> THEN <<>>
  ELSE (IF Head(s) \in chars THEN <<>> ELSE <<Head(s)>>) \o Without(Tail(s), chars)

RECURSIVE LStrip(_, _)
LStrip(s, chars) ==
  IF s # <<>> /\ Head(s) \in chars THEN LStrip(Tail(s), chars) ELSE s

RECURSIVE RStrip(_, _)
RStrip(s, chars) ==
  IF s # <<>> /\ s[Len(s)] \in chars THEN RStrip(SubSeq(s, 1, Len(s) - 1), chars) ELSE s

Strip(s, chars) == RStrip(LStrip(s, chars), chars)

\* "_".join(s.split()): runs of whitespace become one '_', none at the ends.
RECURSIVE JoinWords(_)
JoinWords(s) ==
  LET t == LStrip(s, {" "}) IN
  IF t = <<>> THEN <<>>
  ELSE IF Head(t) # " " /\ Len(t) > 1 /\ t[2] = " "
       THEN (IF LStrip(Tail(t), {" "}) = <<>> THEN <<Head(t)>>
             ELSE <<Head(t), "_">> \o JoinWords(Tail(t)))
       ELSE <<Head(t)>> \o JoinWords(Tail(t))

\* werkzeug.utils.secure_filename: path separators to spaces, whitespace runs
\* to '_', every character outside [A-Za-z0-9_.-] dropped, then leading and
\* trailing '.' and '_' stripped.
NotFilenameChars == {" ", "/", "#"}
PathSepToSpace(c) == IF c = "/" THEN " " ELSE c
secure_filename(filename) ==
  Strip(Without(JoinWords([i \in 1..Len(filename) |-> PathSepToSpace(filename[i])]),
                NotFilenameChars),
        {".", "_"})

\* app.py 34: app.config['ALLOWED_EXTENSIONS']
ALLOWED_EXTENSIONS ==
  {<<"p", "d", "f">>, <<"d", "o", "c", "x">>, <<"d", "o", "c">>, <<"t", "x", "t">>}

\* app.py 44-47
allowed_file(filename) ==
  Contains(filename, ".") /\ Lower(AfterLastDot(filename)) \in ALLOWED_EXTENSIONS

\* ------------------------------------------------------------ extraction
\* What the model call of the extractor does: it raises, or it returns text,
\* here a sequence of pieces: a fence of three backquotes followed by json,
\* a fence of three backquotes alone, a piece that json.loads decodes (to
\* the Python value v), or a piece of prose.
FenceJson == [t |-> "fence_json"]
Fence == [t |-> "fence"]
Doc(v) == [t |-> "doc", v |-> v]
Prose == [t |-> "prose"]
Raises == [raises |-> TRUE, content |-> <<>>]
Says(content) == [raises |-> FALSE, content |-> content]

IndexOf(s, x) ==
  IF \E i \in 1..Len(s) : s[i] = x
  THEN CHOOSE i \in 1..Len(s) : s[i] = x /\ \A j \in 1..(i - 1) : s[j] # x
  ELSE 0

\* s.split(x)[0] and s.split(x)[1]
BeforeFirst(s, x) == IF IndexOf(s, x) = 0 THEN s ELSE SubSeq(s, 1, IndexOf(s, x) - 1)
AfterFirst(s, x) == SubSeq(s, IndexOf(s, x) + 1, Len(s))
Split1(s, x) == BeforeFirst(AfterFirst(s, x), x)

\* app.py 108-111 and 184-187: the text between the fences, if there are any.
\* A json fence is also an occurrence of the plain fence.
AsPlainFences(s) == [i \in 1..Len(s) |-> IF s[i] = FenceJson THEN Fence ELSE s[i]]
Unfence(content) ==
  IF IndexOf(content, FenceJson) # 0
  THEN BeforeFirst(AsPlainFences(Split1(content, FenceJson)), Fence)
  ELSE IF IndexOf(content, Fence) # 0
  THEN BeforeFirst(Split1(content, Fence), Fence)
  ELSE content

\* json.loads succeeds on exactly one decodable piece.
Decodes(content) == Len(content) = 1 /\ content[1].t = "doc"

\* data.get(key, default) of a dict.
Get(data, key, default) == IF key \in DOMAIN data.d THEN data.d[key] ELSE default

\* app.py 136: text[:300] if len(text) > 300 else text
SummaryLen == 300
FallbackSummary(text) == IF Len(text) > SummaryLen THEN Prefix(text, SummaryLen) ELSE text

\* app.py 128-137: the fallback Resume.
FallbackResume(text, filename) ==
  [id |-> PyStr(Replace(filename, <<".">>, <<"_">>)),
   name |-> PyStr(Replace(Replace(Replace(Replace(filename, <<"_">>, <<" ">>),
                                          <<".", "p", "d", "f">>, <<>>),
                                  <<".", "d", "o", "c", "x">>, <<>>),
                          <<".", "t", "x", "t">>, <<>>)),
   email |-> PyStr(<<>>), phone |-> PyStr(<<>>), skills |-> PyList(<<>>),
   experience |-> PyList(<<>>), education |-> PyList(<<>>),
   summary |-> PyStr(FallbackSummary(text))]

\* An exception that leaves a call, where a value was expected.
Exception == [type |-> "Exception"]

\* app.py 115-124: the Resume built from the decoded dict.
ExtractedResume(text, filename, data) ==
  [id |-> PyStr(Replace(filename, <<".">>, <<"_">>)),
   name |-> Get(data, "name", PyStr(Candidate)),
   email |-> Get(data, "email", PyStr(<<>>)),
   phone |-> Get(data, "phone", PyStr(<<>>)),
   skills |-> Get(data, "skills", PyList(<<>>)),
   experience |-> Get(data, "experience", PyList(<<>>)),
   education |-> Get(data, "education", PyList(<<>>)),
   summary |-> Get(data, "summary", PyStr(Prefix(text, SummaryLen)))]

\* The extractor with no except clause: what raises inside leaves it.
parse_resume_no_fallback(text, filename, response) ==
  IF response.raises \/ ~Decodes(Unfence(response.content))
  THEN Exception
  ELSE LET data == Unfence(response.content)[1].v IN
       IF data.type # "dict" THEN Exception ELSE ExtractedResume(text, filename, data)

\* app.py 94-137, parse_resume_with_ai: whatever raises inside the try (the
\* model call, json.loads, .get on a value that is no dict) ends in the
\* fallback; the function itself never raises.
parse_resume_with_ai(text, filename, response) ==
  IF response.raises \/ ~Decodes(Unfence(response.content))
  THEN FallbackResume(text, filename)
  ELSE LET data == Unfence(response.content)[1].v IN
       IF data.type # "dict"
       THEN FallbackResume(text, filename)
       ELSE ExtractedResume(text, filename, data)

\* int(v) of Python: an int, or a str of decimal digits; anything else raises.
Digits == <<"0", "1", "2", "3", "4", "5", "6", "7", "8", "9">>
IsDigits(s) == s # <<>> /\ \A i \in 1..Len(s) : IndexOf(Digits, s[i]) # 0
RECURSIVE Decimal(_)
Decimal(s) ==
  IF s = <<>> THEN 0 ELSE 10 * Decimal(SubSeq(s, 1, Len(s) - 1)) + IndexOf(Digits, s[Len(s)]) - 1
IntRaises(v) == ~(v.type = "int" \/ (v.type = "str" /\ IsDigits(v.s)))
IntOf(v) == IF v.type = "int" THEN v.n ELSE Decimal(v.s)

\* app.py 204-213: the fallback JobDescription.
FallbackJob(text) ==
  [title |-> PyStr(Position), company |-> PyStr(Company),
   required_skills |-> PyList(<<>>), preferred_skills |-> PyList(<<>>),
   experience_years |-> PyInt(0), responsibilities |-> PyList(<<>>),
   qualifications |-> PyList(<<>>), description |-> PyStr(text)]

\* app.py 170-213, parse_job_description_with_ai.
parse_job_description_with_ai(text, response) ==
  IF response.raises \/ ~Decodes(Unfence(response.content))
  THEN FallbackJob(text)
  ELSE LET data == Unfence(response.content)[1].v IN
       IF data.type # "dict" \/ IntRaises(Get(data, "experience_years", PyInt(0)))
       THEN FallbackJob(text)
       ELSE [title |-> Get(data, "title", PyStr(Position)),
             company |-> Get(data, "company", PyStr(Company)),
             required_skills |-> Get(data, "required_skills", PyList(<<>>)),
             preferred_skills |-> Get(data, "preferred_skills", PyList(<<>>)),
             experience_years |-> PyInt(IntOf(Get(data, "experience_years", PyInt(0)))),
             responsibilities |-> Get(data, "responsibilities", PyList(<<>>)),
             qualifications |-> Get(data, "qualifications", PyList(<<>>)),
             description |-> Get(data, "description", PyStr(text))]

\* ------------------------------------------------------------------ rows
\* INSERT INTO sessions (job_title, company, total_candidates): id from
\* AUTOINCREMENT, timestamp DEFAULT CURRENT_TIMESTAMP, is_hidden DEFAULT 0.
SessionRow(id, job_title, company, total) ==
  [id |-> id, job_title |-> job_title, company |-> company, timestamp |-> now,
   is_hidden |-> 0, total_candidates |-> total]

\* rank of enumerate(results, 1): the 1-based position in the supplied list.
ZeroBased(i) == i - 1
RankOf(i) == i

ResultRow(id, session_id, result, i) ==
  [id |-> id, session_id |-> session_id, resume_id |-> result.resume_id,
   candidate_name |-> result.candidate_name,
   overall_score |-> result.overall_score, rank |-> RankOf(i)]

MaxOf(S) == IF S = {} THEN 0 ELSE CHOOSE m \in S : \A x \in S : x <= m

\* INTEGER PRIMARY KEY without AUTOINCREMENT: one more than the largest rowid
\* the table holds now.
MaxRowidPlusOne(rows, seq) == MaxOf({r.id : r \in rows} \cup {0}) + 1

\* INTEGER PRIMARY KEY AUTOINCREMENT: one more than the largest rowid the
\* table has ever held (sqlite_sequence), whatever has been deleted since.
NextId(rows, seq) == MaxOf({r.id : r \in rows} \cup {seq}) + 1

NextSessionId(db) == NextId(db.sessions, db.sqlite_sequence.sessions)
NextResultId(db) == NextId(db.results, db.sqlite_sequence.results)

ResultsOf(rows, session_id) == {r \in rows : r.session_id = session_id}

\* ------------------------------------------------- transaction primitives
\* conn.commit(); conn.close(): the transaction's view becomes the database.
Commit ==
  /\ sessions' = tx.sessions
  /\ results' = tx.results
  /\ sqlite_sequence' = tx.sqlite_sequence
  /\ lock' = NoProc
  /\ tx' = NoTx

\* What was written before the failure is kept.
CommitWhatWasWritten == Commit

\* The connection is dropped without commit(): SQLite rolls back.
Rollback ==
  /\ UNCHANGED <<sessions, results, sqlite_sequence>>
  /\ lock' = NoProc
  /\ tx' = NoTx

\* No write lock: a connection starts writing while another has not committed.
BeginUnlocked(p, db) ==
  /\ lock' = p
  /\ tx' = db
  /\ UNCHANGED <<sessions, results, sqlite_sequence>>

\* The first INSERT/UPDATE/DELETE of a connection: BEGIN, then the write lock,
\* which one connection holds at a time; the others wait.
Begin(p, db) ==
  /\ lock = NoProc
  /\ lock' = p
  /\ tx' = db
  /\ UNCHANGED <<sessions, results, sqlite_sequence>>


\* A store method hands r back to its caller.  The request is then over,
\* unless the caller is upload_files: that one goes on after save_session
\* returns, and ends in its except clause (app.py 301-302), which renders
\* the error page, when save_session raises.
Return(p, r) ==
  LET goesOn == op[p] = "upload_files" /\ r.status = "ok" IN
  /\ pc' = [pc EXCEPT ![p] = IF goesOn THEN "upload_cleanup" ELSE "idle"]
  /\ op' = [op EXCEPT ![p] = IF goesOn THEN @ ELSE "none"]
  /\ arg' = [arg EXCEPT ![p] = IF goesOn THEN [NoArg EXCEPT !.session_id = r.id] ELSE NoArg]
  /\ ret' = IF op[p] # "upload_files" THEN r
            ELSE IF goesOn THEN NoRet
            ELSE [NoRet EXCEPT !.op = "upload_files", !.arg = arg[p],
                               !.run = [run[p] EXCEPT !.raised_in = "save_session"],
                               !.status = "error", !.error = "An error occurred"]

\* A statement that is not the call's last: nothing is handed back yet.
Goto(p, label) ==
  /\ pc' = [pc EXCEPT ![p] = label]
  /\ ret' = NoRet

Outcome(name, a, status) ==
  [NoRet EXCEPT !.op = name, !.arg = a, !.status = status]

\* ----------------------------------------------------------- save_session
\* database.py 79-83: INSERT INTO sessions, session_id = lastrowid (the rowid
\* this connection inserted last).
InsertSession(p, job_title, company, res) ==
  LET id == NextSessionId(Committed) IN
  /\ id <= MaxSessions
  /\ Begin(p, [Committed EXCEPT
                 !.sessions = @ \cup {SessionRow(id, job_title, company, Len(res))},
                 !.sqlite_sequence.sessions = id])
  /\ arg' = [arg EXCEPT ![p] = [NoArg EXCEPT !.session_id = id, !.results = res, !.i = 1,
                                            !.issued_before = arg[p].issued_before]]
  /\ Goto(p, "save_results")
  /\ UNCHANGED <<now, issued, deleted>>

\* candidate_name TEXT NOT NULL, and every parameter one sqlite3 can bind.
Insertable(result) ==
  /\ SqlValue(result.resume_id)
  /\ SqlValue(result.candidate_name)
  /\ result.candidate_name # None

\* database.py 86-106: one INSERT INTO results per element, rank from
\* enumerate(results, 1).  An element that is not Insertable makes the INSERT
\* raise (see save_session_raises).
save_insert_result(p) ==
  /\ pc[p] = "save_results"
  /\ arg[p].i <= Len(arg[p].results)
  /\ Insertable(arg[p].results[arg[p].i])
  /\ LET id == NextResultId(tx) IN
     tx' = [tx EXCEPT
              !.results = @ \cup {ResultRow(id, arg[p].session_id, arg[p].results[arg[p].i], arg[p].i)},
              !.sqlite_sequence.results = id]
  /\ arg' = [arg EXCEPT ![p].i = @ + 1]
  /\ ret' = NoRet
  /\ UNCHANGED <<sessions, results, sqlite_sequence, lock, now, pc, op, run, issued, deleted>>

\* database.py 108-111: commit, close, return session_id.
save_commit(p) ==
  /\ pc[p] = "save_results"
  /\ arg[p].i > Len(arg[p].results)
  /\ Commit
  /\ Return(p, [Outcome("save_session", arg[p], "ok") EXCEPT !.id = arg[p].session_id])
  /\ issued' = Append(issued, arg[p].session_id)
  /\ UNCHANGED <<now, run, deleted>>

\* A statement of save_session after the first raises (the storage fails, or
\* candidate_name is None): the exception leaves save_session, its connection
\* is dropped uncommitted, and nothing of the call is kept.
save_session_raises(p) ==
  /\ pc[p] = "save_results"
  /\ Rollback
  /\ Return(p, Outcome("save_session", arg[p], "raised"))
  /\ run' = [run EXCEPT ![p] = NoRun]
  /\ UNCHANGED <<now, issued, deleted>>

\* save_session called on the store directly.  The two requests supply
\* records of different candidates, so that a row tells whose call wrote it.
Named(p) == [resume_id |-> PyStr(<<"a", "_", "p", "d", "f">>),
             candidate_name |-> IF p = "p1" THEN PyStr(<<"A", "n", "n">>)
                                ELSE PyStr(<<"B", "o", "b">>),
             overall_score |-> 1]

ResultLists(p) == {[i \in 1..n |-> Named(p)] : n \in 0..MaxResults}

\* database.py 75-76: connect and cursor(); nothing is read or locked yet.
save_session(p) ==
  /\ pc[p] = "idle"
  /\ sqlite_sequence.sessions < MaxSessions
  /\ pc' = [pc EXCEPT ![p] = "save_insert_session"]
  /\ op' = [op EXCEPT ![p] = "save_session"]
  /\ arg' = [arg EXCEPT ![p] = [NoArg EXCEPT !.issued_before = Len(issued)]]
  /\ ret' = NoRet
  /\ UNCHANGED <<sessions, results, sqlite_sequence, lock, tx, now, run, issued, deleted>>

\* database.py 79-83, once the write lock is free.
save_insert_session(p) ==
  /\ pc[p] = "save_insert_session"
  /\ \E res \in ResultLists(p) : InsertSession(p, PyStr(Position), PyStr(Company), res)
  /\ UNCHANGED <<op, run>>

\* database.py 79: another connection holds the write lock for longer than
\* the connection's timeout (5 s, the default of sqlite3.connect): execute
\* raises OperationalError, database is locked, and nothing was written.
save_session_locked(p) ==
  /\ pc[p] = "save_insert_session"
  /\ lock # NoProc
  /\ Return(p, Outcome("save_session", arg[p], "raised"))
  /\ UNCHANGED <<sessions, results, sqlite_sequence, lock, tx, now, run, issued, deleted>>

\* ------------------------------------------------------- get_all_sessions
\* database.py 119-127: one SELECT, ORDER BY timestamp DESC.
ByTimestampDesc(rows) == [r \in rows |-> 0 - r.timestamp]
\* ORDER BY overall_score DESC
ByScoreDesc(rows) == [r \in rows |-> 0 - r.overall_score]
ByRank(rows) == [r \in rows |-> r.rank]

\* The SELECT without its WHERE is_hidden = 0.
SelectEverySession(include_hidden) == OrderingsBy(sessions, ByTimestampDesc(sessions))

SelectSessions(include_hidden) ==
  LET rows == IF include_hidden THEN sessions ELSE {r \in sessions : r.is_hidden = 0}
  IN OrderingsBy(rows, ByTimestampDesc(rows))

get_all_sessions(p) ==
  /\ pc[p] = "idle"
  /\ \E include_hidden \in BOOLEAN :
       \E rows \in SelectSessions(include_hidden) :
         Return(p, [Outcome("get_all_sessions",
                            [NoArg EXCEPT !.include_hidden = include_hidden], "ok")
                      EXCEPT !.sessions = rows])
  /\ UNCHANGED <<sessions, results, sqlite_sequence, lock, tx, now, run, issued, deleted>>

\* ---------------------------------------------------- get_session_results
\* database.py 136-137: SELECT the session row; dict(cursor.fetchone()) raises
\* TypeError when there is none.
get_select_session(p) ==
  /\ pc[p] = "idle"
  /\ \E session_id \in SessionIds :
       LET found == {r \in sessions : r.id = session_id}
           a == [NoArg EXCEPT !.session_id = session_id,
                              !.after_delete = session_id \in deleted]
       IN IF found = {}
          THEN Return(p, Outcome("get_session_results", a, "raised"))
          ELSE /\ Goto(p, "get_results")
               /\ op' = [op EXCEPT ![p] = "get_session_results"]
               /\ arg' = [arg EXCEPT ![p] = [a EXCEPT !.session = <<CHOOSE r \in found : TRUE>>]]
  /\ UNCHANGED <<sessions, results, sqlite_sequence, lock, tx, now, run, issued, deleted>>

\* database.py 140-150: a second SELECT, the results ORDER BY rank; return both.
get_select_results(p) ==
  /\ pc[p] = "get_results"
  /\ \E rows \in OrderingsBy(ResultsOf(results, arg[p].session_id),
                             ByRank(ResultsOf(results, arg[p].session_id))) :
       Return(p, [Outcome("get_session_results", [arg[p] EXCEPT !.session = <<>>], "ok")
                    EXCEPT !.session = arg[p].session, !.results = rows])
  /\ UNCHANGED <<sessions, results, sqlite_sequence, lock, tx, now, run, issued, deleted>>

\* ----------------------------------------------------- get_top_candidates
\* get_top_candidates reading the first row it fetched: IndexError when the
\* SELECT returned none.
get_top_candidates_first_row(p) ==
  /\ pc[p] = "idle"
  /\ \E session_id \in SessionIds, top_n \in TopNs :
       \E rows \in OrderingsBy(ResultsOf(results, session_id),
                               ByRank(ResultsOf(results, session_id))) :
         Return(p, [Outcome("get_top_candidates",
                            [NoArg EXCEPT !.session_id = session_id, !.top_n = top_n],
                            IF Limit(rows, top_n) = <<>> THEN "raised" ELSE "ok")
                      EXCEPT !.results = Limit(rows, top_n)])
  /\ UNCHANGED <<sessions, results, sqlite_sequence, lock, tx, now, run, issued, deleted>>

\* database.py 192-207: one SELECT on results alone, ORDER BY rank LIMIT ?.
get_top_candidates(p) ==
  /\ pc[p] = "idle"
  /\ \E session_id \in SessionIds, top_n \in TopNs :
       \E rows \in OrderingsBy(ResultsOf(results, session_id),
                               ByRank(ResultsOf(results, session_id))) :
         Return(p, [Outcome("get_top_candidates",
                            [NoArg EXCEPT !.session_id = session_id, !.top_n = top_n], "ok")
                      EXCEPT !.results = Limit(rows, top_n)])
  /\ UNCHANGED <<sessions, results, sqlite_sequence, lock, tx, now, run, issued, deleted>>

\* ------------------------------------------- hide_session, unhide_session
\* UPDATE sessions SET is_hidden = v WHERE id = ?: no row, no change, no error.
\* The flag flipped instead of set.
ToggleHidden(rows, session_id, v) ==
  {IF r.id = session_id THEN [r EXCEPT !.is_hidden = 1 - @] ELSE r : r \in rows}

\* UPDATE sessions SET is_hidden = v, without the WHERE: every row is set.
UpdateWithoutWhere(rows, session_id, v) == {[r EXCEPT !.is_hidden = v] : r \in rows}

\* UPDATE sessions SET is_hidden = v WHERE id = session_id
SetHidden(rows, session_id, v) ==
  {IF r.id = session_id THEN [r EXCEPT !.is_hidden = v] ELSE r : r \in rows}

\* The first statement of a writing method called with a session id.
Write(p, name, session_id, db, label) ==
  /\ Begin(p, db)
  /\ op' = [op EXCEPT ![p] = name]
  /\ arg' = [arg EXCEPT ![p] = [NoArg EXCEPT !.session_id = session_id]]
  /\ Goto(p, label)
  /\ UNCHANGED <<now, run, issued, deleted>>

\* database.py 154-156
hide_update(p) ==
  /\ pc[p] = "idle"
  /\ \E session_id \in SessionIds :
       Write(p, "hide_session", session_id,
             [Committed EXCEPT !.sessions = SetHidden(@, session_id, 1)], "hide_commit")

\* database.py 157-158
hide_commit(p) ==
  /\ pc[p] = "hide_commit"
  /\ Commit
  /\ Return(p, Outcome("hide_session", arg[p], "ok"))
  /\ UNCHANGED <<now, run, issued, deleted>>

\* database.py 162-164
unhide_update(p) ==
  /\ pc[p] = "idle"
  /\ \E session_id \in SessionIds :
       Write(p, "unhide_session", session_id,
             [Committed EXCEPT !.sessions = SetHidden(@, session_id, 0)], "unhide_commit")

\* database.py 165-166
unhide_commit(p) ==
  /\ pc[p] = "unhide_commit"
  /\ Commit
  /\ Return(p, Outcome("unhide_session", arg[p], "ok"))
  /\ UNCHANGED <<now, run, issued, deleted>>

\* --------------------------------------------------------- delete_session
\* The results are left in place.
KeepResultRows(rows, session_id) == rows
\* DELETE FROM results WHERE session_id = ?
DeleteResultsOf(rows, session_id) == {r \in rows : r.session_id # session_id}
\* The session row is left in place.
KeepSessionRow(rows, session_id) == rows
DeleteSessionRow(rows, session_id) == {r \in rows : r.id # session_id}

\* database.py 170-172: DELETE FROM results WHERE session_id = ?
delete_results(p) ==
  /\ pc[p] = "idle"
  /\ \E session_id \in SessionIds :
       Write(p, "delete_session", session_id,
             [Committed EXCEPT !.results = DeleteResultsOf(@, session_id)],
             "delete_session_row")

\* database.py 173: DELETE FROM sessions WHERE id = ?
delete_session_row(p) ==
  /\ pc[p] = "delete_session_row"
  /\ tx' = [tx EXCEPT !.sessions = DeleteSessionRow(@, arg[p].session_id)]
  /\ Goto(p, "delete_commit")
  /\ UNCHANGED <<sessions, results, sqlite_sequence, lock, now, op, arg, run, issued, deleted>>

\* database.py 174-175
delete_commit(p) ==
  /\ pc[p] = "delete_commit"
  /\ Commit
  /\ Return(p, Outcome("delete_session", arg[p], "ok"))
  /\ deleted' = deleted \cup {r.id : r \in {x \in sessions : x.id = arg[p].session_id}}
  /\ UNCHANGED <<now, run, issued>>

\* ------------------------------------------------------ clear_all_history
\* database.py 179-181: DELETE FROM results
clear_results(p) ==
  /\ pc[p] = "idle"
  /\ Write(p, "clear_all_history", 0, [Committed EXCEPT !.results = {}], "clear_sessions")

\* DELETE FROM sessions WHERE is_hidden = 0: the hidden sessions stay.
clear_visible_sessions(p) ==
  /\ pc[p] = "clear_sessions"
  /\ tx' = [tx EXCEPT !.sessions = {r \in @ : r.is_hidden = 1}]
  /\ Goto(p, "clear_commit")
  /\ UNCHANGED <<sessions, results, sqlite_sequence, lock, now, op, arg, run, issued, deleted>>

\* database.py 182: DELETE FROM sessions (sqlite_sequence is left alone)
clear_sessions(p) ==
  /\ pc[p] = "clear_sessions"
  /\ tx' = [tx EXCEPT !.sessions = {}]
  /\ Goto(p, "clear_commit")
  /\ UNCHANGED <<sessions, results, sqlite_sequence, lock, now, op, arg, run, issued, deleted>>

\* database.py 183-184
clear_commit(p) ==
  /\ pc[p] = "clear_commit"
  /\ Commit
  /\ Return(p, Outcome("clear_all_history", arg[p], "ok"))
  /\ UNCHANGED <<now, run, issued, deleted>>

\* ----------------------------------------------------------- upload_files
MaxRuns == 1          \* sessions the upload handler may create
MaxResumes == 2       \* resume files in one upload
MaxScore == 2         \* overall_score takes the values 1..MaxScore

\* The POST request: the pasted job text, the job file (field absent, or a
\* filename and the text FileParser reads from the file, unless parse_file
\* raises on it) and the resume filenames (field absent, or a list).
JobText == <<"j", "o", "b">>
ResumeText == <<"c", "v">>
NoFile == [present |-> FALSE, filename |-> <<>>, text |-> <<>>, unreadable |-> FALSE]
File(filename, text) ==
  [present |-> TRUE, filename |-> filename, text |-> text, unreadable |-> FALSE]
JobForms == {<<>>, <<" ">>, JobText}
JobFiles ==
  {NoFile, File(<<>>, <<>>), File(<<"j", ".", "p", "d", "f">>, JobText),
   File(<<"j", ".", "p", "d", "f">>, <<>>), File(<<"j", ".", "e", "x", "e">>, JobText),
   [File(<<"j", ".", "p", "d", "f">>, <<>>) EXCEPT !.unreadable = TRUE]}
Filenames ==
  {<<"a", ".", "p", "d", "f">>, <<"a", "_", "b", ".", "p", "d", "f">>,
   <<"a", ".", "b", ".", "p", "d", "f">>, <<"a", " ", "b", ".", "p", "d", "f">>,
   <<"x", ".", "e", "x", "e">>, <<>>}

RECURSIVE SeqsUpTo(_, _)
SeqsUpTo(S, n) ==
  IF n = 0 THEN {<<>>}
  ELSE LET shorter == SeqsUpTo(S, n - 1) IN
       shorter \cup {Append(t, x) : t \in {u \in shorter : Len(u) = n - 1}, x \in S}

\* request.files.getlist('resumes') is empty when the form has no such field.
Requests ==
  {request \in [job_description_text : JobForms, job_description : JobFiles,
                has_resumes : BOOLEAN, resumes : SeqsUpTo(Filenames, MaxResumes)] :
     ~request.has_resumes => request.resumes = <<>>}

\* app.py 227-244: the pasted text if there is any, else the text of the job
\* file; None (here the empty text, which "not job_text" treats alike) when
\* neither is given.
JobTextOf(request) ==
  IF Strip(request.job_description_text, {" "}) # <<>>
  THEN Strip(request.job_description_text, {" "})
  ELSE IF request.job_description.present /\ request.job_description.filename # <<>>
  THEN request.job_description.text
  ELSE <<>>

\* The checks of the resumes alone, the job description taken as given.
ValidationOfResumesOnly(request) ==
  IF /\ Strip(request.job_description_text, {" "}) = <<>>
     /\ request.job_description.present
     /\ request.job_description.filename # <<>>
     /\ ~allowed_file(request.job_description.filename)
  THEN "Job description file type not supported"
  ELSE IF ~request.has_resumes THEN "Please upload resume files"
  ELSE IF request.resumes = <<>> \/ request.resumes[1] = <<>>
  THEN "Please select at least one resume file"
  ELSE IF \E i \in 1..Len(request.resumes) : ~allowed_file(request.resumes[i])
  THEN "Resume file type not supported"
  ELSE ""

\* app.py 225-260: the message of the error page, "" when the request passes.
ValidationError(request) ==
  IF /\ Strip(request.job_description_text, {" "}) = <<>>
     /\ request.job_description.present
     /\ request.job_description.filename # <<>>
     /\ ~allowed_file(request.job_description.filename)
  THEN "Job description file type not supported"
  ELSE IF JobTextOf(request) = <<>> THEN "Please provide a job description"
  ELSE IF ~request.has_resumes THEN "Please upload resume files"
  ELSE IF request.resumes = <<>> \/ request.resumes[1] = <<>>
  THEN "Please select at least one resume file"
  ELSE IF \E i \in 1..Len(request.resumes) : ~allowed_file(request.resumes[i])
  THEN "Resume file type not supported"
  ELSE ""

\* app.py 243: FileParser.parse_file raises on the job file.
JobFileRaises(request) ==
  /\ Strip(request.job_description_text, {" "}) = <<>>
  /\ request.job_description.present
  /\ request.job_description.filename # <<>>
  /\ allowed_file(request.job_description.filename)
  /\ request.job_description.unreadable

\* The handler ends: the response is the upload form with an error message.
ErrorPage(p, r, message) ==
  /\ pc' = [pc EXCEPT ![p] = "idle"]
  /\ op' = [op EXCEPT ![p] = "none"]
  /\ arg' = [arg EXCEPT ![p] = NoArg]
  /\ run' = [run EXCEPT ![p] = NoRun]
  /\ ret' = [NoRet EXCEPT !.op = "upload_files", !.run = r, !.status = "error",
                          !.error = message]

\* app.py 301-302: an exception of the call named ends the handler.
Except(p, call) ==
  ErrorPage(p, [run[p] EXCEPT !.raised_in = call], "An error occurred")

\* app.py 225-260
upload_validate(p) ==
  /\ pc[p] = "idle"
  /\ \E request \in Requests :
       IF JobFileRaises(request)
       THEN ErrorPage(p, [NoRun EXCEPT !.request = <<request>>, !.raised_in = "parse_file"],
                      "An error occurred")
       ELSE IF ValidationError(request) # ""
       THEN ErrorPage(p, [NoRun EXCEPT !.request = <<request>>], ValidationError(request))
       ELSE /\ sqlite_sequence.sessions < MaxRuns
            /\ run' = [run EXCEPT ![p] = [NoRun EXCEPT !.job_text = JobTextOf(request),
                                                        !.resume_files = request.resumes]]
            /\ op' = [op EXCEPT ![p] = "upload_files"]
            /\ Goto(p, "upload_parse_job")
            /\ UNCHANGED arg
  /\ UNCHANGED <<sessions, results, sqlite_sequence, lock, tx, now, issued, deleted>>

\* What the model may answer to the job prompt and to a resume prompt.
JobResponses ==
  {Raises, Says(<<Prose>>),
   Says(<<FenceJson, Doc(PyDict([title |-> PyStr(<<"D", "e", "v">>)])), Fence>>)}
Parseable == Says(<<Doc(PyDict([name |-> PyStr(<<"A", "n", "n">>)]))>>)
ResumeResponses == {Raises, Says(<<Prose>>), Parseable}

\* app.py 266
upload_parse_job(p) ==
  /\ pc[p] = "upload_parse_job"
  /\ \E response \in JobResponses :
       LET job == parse_job_description_with_ai(run[p].job_text, response) IN
       IF job = Exception
       THEN Except(p, "parse_job_description_with_ai")
       ELSE /\ run' = [run EXCEPT ![p].job_description = <<job>>,
                                  ![p].called = Append(@, "parse_job_description_with_ai")]
            /\ Goto(p, "upload_parse_resume")
            /\ UNCHANGED <<op, arg>>
  /\ UNCHANGED <<sessions, results, sqlite_sequence, lock, tx, now, issued, deleted>>

\* app.py 270-277: one turn of the loop over resume_files.
upload_parse_resume(p) ==
  /\ pc[p] = "upload_parse_resume"
  /\ Len(run[p].resumes) < Len(run[p].resume_files)
  /\ \E response \in ResumeResponses :
       LET resume_filename == secure_filename(run[p].resume_files[Len(run[p].resumes) + 1])
           resume == parse_resume_with_ai(ResumeText, resume_filename, response)
       IN IF resume = Exception
          THEN Except(p, "parse_resume_with_ai")
          ELSE /\ run' = [run EXCEPT ![p].resumes = Append(@, resume),
                                     ![p].responses = Append(@, response),
                                     ![p].called = Append(@, "parse_resume_with_ai")]
               /\ Goto(p, IF Len(run[p].resumes) + 1 = Len(run[p].resume_files)
                          THEN "upload_rank" ELSE "upload_parse_resume")
               /\ UNCHANGED <<op, arg>>
  /\ UNCHANGED <<sessions, results, sqlite_sequence, lock, tx, now, issued, deleted>>

\* app.py 275: FileParser.parse_file raises on a resume file.
upload_parse_file_raises(p) ==
  /\ pc[p] = "upload_parse_resume"
  /\ Except(p, "parse_file")
  /\ UNCHANGED <<sessions, results, sqlite_sequence, lock, tx, now, issued, deleted>>

\* rank_resumes(resumes, job_description) of the scoring agent: it raises, or
\* it returns one ResumeScore per resume, in any order, with any scores; or
\* something else: a list with no ResumeScore for the resumes it was given, a
\* list holding what is no dataclass instance (None), or a ResumeScore whose
\* candidate_name is None.
ResumeScore(resume, score) ==
  [resume_id |-> resume.id, candidate_name |-> resume.name, overall_score |-> score]

Orders(n) == {f \in [1..n -> 1..n] : \A i, j \in 1..n : i # j => f[i] # f[j]}

rank_resumes(resumes) ==
  LET n == Len(resumes)
      scored == {[i \in 1..n |-> ResumeScore(resumes[f[i]], score[i])] :
                   f \in Orders(n), score \in [1..n -> 1..MaxScore]}
  IN {[kind |-> "raised", value |-> <<>>],
      [kind |-> "malformed", value |-> <<>>],
      [kind |-> "malformed", value |-> <<None>>],
      [kind |-> "malformed",
       value |-> [i \in 1..n |-> [ResumeScore(resumes[i], 1) EXCEPT !.candidate_name = None]]]}
     \cup {[kind |-> "ok", value |-> ranked] : ranked \in scored}

\* asdict(x) raises TypeError unless x is a dataclass instance.
IsDataclass(x) == "resume_id" \in DOMAIN x

\* dataclasses.asdict of a ResumeScore.
asdict(score) ==
  [resume_id |-> score.resume_id, candidate_name |-> score.candidate_name,
   overall_score |-> score.overall_score]

\* rank_resumes called, and called again before its result is used.
upload_rank_twice(p) ==
  /\ pc[p] = "upload_rank"
  /\ \E first, outcome \in rank_resumes(run[p].resumes) :
       LET r == [run[p] EXCEPT !.scoring = outcome.kind,
                               !.called = @ \o <<"rank_resumes", "rank_resumes">>]
       IN IF first.kind = "raised" \/ outcome.kind = "raised"
          THEN ErrorPage(p, [r EXCEPT !.raised_in = "rank_resumes"], "An error occurred")
          ELSE IF \E i \in 1..Len(outcome.value) : ~IsDataclass(outcome.value[i])
          THEN ErrorPage(p, [r EXCEPT !.raised_in = "asdict"], "An error occurred")
          ELSE /\ run' = [run EXCEPT ![p] = [r EXCEPT !.ranked_results = outcome.value]]
               /\ Goto(p, "upload_save")
               /\ UNCHANGED <<op, arg>>
  /\ UNCHANGED <<sessions, results, sqlite_sequence, lock, tx, now, issued, deleted>>

\* app.py 280-283: the one call of rank_resumes, then asdict of each element
\* of what it returned.
upload_rank(p) ==
  /\ pc[p] = "upload_rank"
  /\ \E outcome \in rank_resumes(run[p].resumes) :
       LET r == [run[p] EXCEPT !.scoring = outcome.kind,
                               !.called = Append(@, "rank_resumes")]
       IN IF outcome.kind = "raised"
          THEN ErrorPage(p, [r EXCEPT !.raised_in = "rank_resumes"], "An error occurred")
          ELSE IF \E i \in 1..Len(outcome.value) : ~IsDataclass(outcome.value[i])
          THEN ErrorPage(p, [r EXCEPT !.raised_in = "asdict"], "An error occurred")
          ELSE /\ run' = [run EXCEPT ![p] = [r EXCEPT !.ranked_results = outcome.value]]
               /\ Goto(p, "upload_save")
               /\ UNCHANGED <<op, arg>>
  /\ UNCHANGED <<sessions, results, sqlite_sequence, lock, tx, now, issued, deleted>>

\* The order in which upload_files hands the scores to save_session and to
\* the results page: the order rank_resumes returned them in.
results_data(ranked_results) == [i \in 1..Len(ranked_results) |-> asdict(ranked_results[i])]

\* app.py 284: db.save_session(job_description.title, job_description.company,
\* results_data).  job_title is TEXT NOT NULL.
upload_save(p) ==
  /\ pc[p] = "upload_save"
  /\ LET job == run[p].job_description[1] IN
     IF ~SqlValue(job.title) \/ ~SqlValue(job.company) \/ job.title = None
     THEN /\ Except(p, "save_session")
          /\ UNCHANGED <<sessions, results, sqlite_sequence, lock, tx, now, issued, deleted>>
     ELSE /\ InsertSession(p, job.title, job.company, results_data(run[p].ranked_results))
          /\ run' = [run EXCEPT ![p].called = Append(@, "save_session")]
          /\ UNCHANGED op

\* app.py 286-297: the uploads are removed and the results page is rendered
\* with ranked_results and session_id.
upload_return(p) ==
  /\ pc[p] = "upload_cleanup"
  /\ pc' = [pc EXCEPT ![p] = "idle"]
  /\ op' = [op EXCEPT ![p] = "none"]
  /\ arg' = [arg EXCEPT ![p] = NoArg]
  /\ run' = [run EXCEPT ![p] = NoRun]
  /\ ret' = [NoRet EXCEPT !.op = "upload_files", !.run = run[p], !.status = "ok",
                          !.id = arg[p].session_id, !.results = run[p].ranked_results]
  /\ UNCHANGED <<sessions, results, sqlite_sequence, lock, tx, now, issued, deleted>>

\* ------------------------------------------------------------------ clock
\* A second passes on the wall clock CURRENT_TIMESTAMP reads.
Tick ==
  /\ now < MaxClock
  /\ now' = now + 1
  /\ ret' = NoRet
  /\ UNCHANGED <<sessions, results, sqlite_sequence, lock, tx, pc, op, arg, run, issued, deleted>>

\* ------------------------------------------------------------- the store
\* init_database on a new file: both tables empty, no request under way.
Init ==
  /\ sessions = {}
  /\ results = {}
  /\ sqlite_sequence = [sessions |-> 0, results |-> 0]
  /\ lock = NoProc
  /\ tx = NoTx
  /\ now = 0
  /\ pc = [p \in Procs |-> "idle"]
  /\ op = [p \in Procs |-> "none"]
  /\ arg = [p \in Procs |-> NoArg]
  /\ run = [p \in Procs |-> NoRun]
  /\ ret = NoRet
  /\ issued = <<>>
  /\ deleted = {}

\* The response of the call that has just returned goes out to its client.
Respond ==
  /\ ret # NoRet
  /\ ret' = NoRet
  /\ UNCHANGED <<sessions, results, sqlite_sequence, lock, tx, now, pc, op, arg, run,
                 issued, deleted>>

Next ==
  \/ Respond
  \/ ret = NoRet /\ Tick
  \/ ret = NoRet /\ \E p \in Procs : save_session(p)
  \/ ret = NoRet /\ \E p \in Procs : save_insert_session(p)
  \/ ret = NoRet /\ \E p \in Procs : save_session_locked(p)
  \/ ret = NoRet /\ \E p \in Procs : save_insert_result(p)
  \/ ret = NoRet /\ \E p \in Procs : save_commit(p)
  \/ ret = NoRet /\ \E p \in Procs : save_session_raises(p)
  \/ ret = NoRet /\ \E p \in Procs : get_all_sessions(p)
  \/ ret = NoRet /\ \E p \in Procs : get_select_session(p)
  \/ ret = NoRet /\ \E p \in Procs : get_select_results(p)
  \/ ret = NoRet /\ \E p \in Procs : get_top_candidates(p)
  \/ ret = NoRet /\ \E p \in Procs : hide_update(p)
  \/ ret = NoRet /\ \E p \in Procs : hide_commit(p)
  \/ ret = NoRet /\ \E p \in Procs : unhide_update(p)
  \/ ret = NoRet /\ \E p \in Procs : unhide_commit(p)
  \/ ret = NoRet /\ \E p \in Procs : delete_results(p)
  \/ ret = NoRet /\ \E p \in Procs : delete_session_row(p)
  \/ ret = NoRet /\ \E p \in Procs : delete_commit(p)
  \/ ret = NoRet /\ \E p \in Procs : clear_results(p)
  \/ ret = NoRet /\ \E p \in Procs : clear_sessions(p)
  \/ ret = NoRet /\ \E p \in Procs : clear_commit(p)

\* The store under concurrent requests, each one store call at a time.
Spec == Init /\ [][Next]_vars

\* ------------------------------------------------------------ the pipeline
\* The process that serves the uploads.
Runner == "p1"

\* The process of a request that looks a session up meanwhile
\* (app.py 312-315, view_session).
Viewer == "p2"

NextRun ==
  \/ Respond
  \/ ret = NoRet /\ get_select_session(Viewer)
  \/ ret = NoRet /\ get_select_results(Viewer)
  \/ ret = NoRet /\ upload_validate(Runner)
  \/ ret = NoRet /\ upload_parse_job(Runner)
  \/ ret = NoRet /\ upload_parse_resume(Runner)
  \/ ret = NoRet /\ upload_parse_file_raises(Runner)
  \/ ret = NoRet /\ upload_rank(Runner)
  \/ ret = NoRet /\ upload_save(Runner)
  \/ ret = NoRet /\ save_insert_result(Runner)
  \/ ret = NoRet /\ save_commit(Runner)
  \/ ret = NoRet /\ save_session_raises(Runner)
  \/ ret = NoRet /\ upload_return(Runner)

\* Uploads, one at a time, against the store, and lookups of sessions.
SpecRun == Init /\ [][NextRun]_vars

\* ---------------------------------------------------------- the extractors
\* parse_resume_with_ai and parse_job_description_with_ai called on their
\* own: the texts (empty, short, of exactly and of more than SummaryLen
\* characters), the filenames upload_files lets through, and what the model
\* may answer: besides the answers above, JSON that is no object, an object
\* with a string where a list is expected, an object with a null.
Chars(n) == [i \in 1..n |-> "x"]
Texts == {<<>>, ResumeText, Chars(SummaryLen), Chars(SummaryLen + 1)}
ResumeFilenames ==
  {<<"a", "_", "b", ".", "p", "d", "f">>, <<"a", ".", "b", ".", "p", "d", "f">>,
   <<"a", ".", "d", "o", "c", "x">>, <<"a", ".", "d", "o", "c">>, <<"a", ".", "t", "x", "t">>}
NoObject == Says(<<Doc(PyList(<<>>))>>)
JsonNull == Says(<<Doc(None)>>)
StrForList == Says(<<Doc(PyDict([name |-> PyStr(<<"A", "n", "n">>), skills |-> PyStr(<<"S", "Q", "L">>)]))>>)
NullName == Says(<<Doc(PyDict([name |-> None]))>>)
ListForStr == Says(<<Doc(PyDict([title |-> PyList(<<>>)]))>>)
NullTitle == Says(<<Doc(PyDict([title |-> None]))>>)
WordForYears == Says(<<Doc(PyDict([experience_years |-> PyStr(<<"t", "w", "o">>)]))>>)
DigitsForYears == Says(<<Doc(PyDict([experience_years |-> PyStr(<<"1", "2">>)]))>>)
NullYears == Says(<<Doc(PyDict([experience_years |-> None]))>>)
AllResumeResponses == ResumeResponses \cup {NoObject, JsonNull, StrForList, NullName}
AllJobResponses ==
  JobResponses \cup {NoObject, JsonNull, ListForStr, NullTitle, WordForYears,
                     DigitsForYears, NullYears}

\* app.py 50-137, called with (text, filename, agent).
call_parse_resume_with_ai(p) ==
  /\ pc[p] = "idle"
  /\ \E text \in Texts, filename \in ResumeFilenames, response \in AllResumeResponses :
       ret' = [NoRet EXCEPT
                 !.op = "parse_resume_with_ai", !.status = "ok",
                 !.run = [NoRun EXCEPT
                            !.text = text, !.resume_files = <<filename>>,
                            !.responses = <<response>>,
                            !.resumes = <<parse_resume_with_ai(text, filename, response)>>]]
  /\ UNCHANGED <<sessions, results, sqlite_sequence, lock, tx, now, pc, op, arg, run,
                 issued, deleted>>

\* app.py 140-213, called with (text, agent).
call_parse_job_description_with_ai(p) ==
  /\ pc[p] = "idle"
  /\ \E text \in Texts, response \in AllJobResponses :
       ret' = [NoRet EXCEPT
                 !.op = "parse_job_description_with_ai", !.status = "ok",
                 !.run = [NoRun EXCEPT
                            !.text = text, !.responses = <<response>>,
                            !.job_description =
                               <<parse_job_description_with_ai(text, response)>>]]
  /\ UNCHANGED <<sessions, results, sqlite_sequence, lock, tx, now, pc, op, arg, run,
                 issued, deleted>>

NextExtract ==
  \/ Respond
  \/ ret = NoRet /\ call_parse_resume_with_ai(Runner)
  \/ ret = NoRet /\ call_parse_job_description_with_ai(Runner)

\* The two extractors on every text, filename and answer above.
SpecExtract == Init /\ [][NextExtract]_vars

\* ---------------------------------------------------------------- claims
Ids(rows) == {r.id : r \in rows}

\* C1: save_session is atomic for every reader.  In the database every SELECT
\* reads, while a save is under way and after a save has failed part-way, a
\* session row is there together with exactly total_candidates result rows;
\* and get_session_results, for a session that is still there when it
\* returns, returns as many results as the session's total_candidates.
CreateSessionAtomic ==
  /\ \A s \in sessions : Cardinality(ResultsOf(results, s.id)) = s.total_candidates
  /\ (ret.op = "get_session_results" /\ ret.status = "ok"
        /\ ret.arg.session_id \in Ids(sessions))
       => Len(ret.results) = ret.session[1].total_candidates

\* A reader has returned while another connection has inserted a session row
\* and not yet all of its results.
ReaderDuringSave ==
  /\ ret.op \in {"get_all_sessions", "get_session_results", "get_top_candidates"}
  /\ lock # NoProc
  /\ \E s \in tx.sessions :
       /\ s \notin sessions
       /\ Cardinality(ResultsOf(tx.results, s.id)) < s.total_candidates

\* C2: get_session_results racing delete_session on the same session returns
\* the complete session or fails; it never returns a session row with fewer
\* results than were persisted for it.
ReadRacingDeleteCompleteOrNotFound ==
  (ret.op = "get_session_results" /\ ret.status = "ok")
    => Len(ret.results) = ret.session[1].total_candidates

\* C3: get_session_results called after delete_session of the same id has
\* returned fails and hands back no session and no results; a delete_session
\* of an id already deleted completes without error and changes neither
\* table.
DeleteThenGetNotFound ==
  /\ [](ret.op = "get_session_results" /\ ret.arg.after_delete
          => ret.status = "raised" /\ ret.session = <<>> /\ ret.results = <<>>)
  /\ [][\A p \in Procs :
          (pc[p] = "delete_commit" /\ pc'[p] = "idle" /\ arg[p].session_id \in deleted)
            => /\ ret'.op = "delete_session" /\ ret'.status = "ok"
               /\ sessions' = sessions /\ results' = results]_vars

\* A get of a deleted id has failed, while a second delete of a deleted id
\* is about to commit.
GetAndDeleteAfterDelete ==
  /\ ret.op = "get_session_results" /\ ret.arg.after_delete
  /\ \E q \in Procs : pc[q] = "delete_commit" /\ arg[q].session_id \in deleted

\* C4 as stated: whatever order rank_resumes returned, the results upload_files
\* returns and the ranks it persists are sorted by overall_score descending,
\* equal scores in the order the resumes were submitted.
Submitted(resumes, resume_id) ==
  CHOOSE i \in 1..Len(resumes) : resumes[i].id = resume_id
RunIdentitiesDistinct ==
  \A i, j \in 1..Len(run[Runner].resumes) :
    secure_filename(run[Runner].resume_files[i]) # secure_filename(run[Runner].resume_files[j])
      => run[Runner].resumes[i].id # run[Runner].resumes[j].id

\* C6: every save_session returns an id greater than every id returned
\* before it, whatever was hidden, unhidden, deleted or cleared in between.
SessionIdsIncrease ==
  \A i, j \in 1..Len(issued) : i < j => issued[i] < issued[j]

\* A second session has been created after the first one was deleted.
CreatedAfterDelete ==
  /\ Len(issued) = 2
  /\ issued[1] \in deleted
  /\ Ids(sessions) = {issued[2]}

\* C7: get_all_sessions returns the sessions most recently created first,
\* however close in time they were created (a session created later has
\* the greater id); without include_hidden it returns exactly the sessions
\* that are not hidden.
ListMostRecentFirst ==
  ret.op = "get_all_sessions" =>
    /\ \A i, j \in 1..Len(ret.sessions) : i < j => ret.sessions[i].id > ret.sessions[j].id
    /\ ~ret.arg.include_hidden => Range(ret.sessions) = {s \in sessions : s.is_hidden = 0}

\* C8: no failure of a model call or of decoding its answer ends upload_files.
\* When the resumes have been parsed there is one record per resume file, in
\* the order of the files: the fallback record where the call raised or
\* answered prose, the extracted record elsewhere; the job description is
\* there; and every upload that passed validation and whose files could be
\* read has called rank_resumes after one extraction per resume file.
ExtractionNeverAborts ==
  /\ ret.op = "upload_files" =>
       /\ ret.run.raised_in \notin {"parse_resume_with_ai", "parse_job_description_with_ai"}
       /\ (ret.run.job_text # <<>> /\ ret.run.raised_in # "parse_file") =>
            /\ Len(ret.run.resumes) = Len(ret.run.resume_files)
            /\ ret.run.called[Len(ret.run.resume_files) + 2] = "rank_resumes"
            /\ \A i \in 1..Len(ret.run.resume_files) :
                 ret.run.called[i + 1] = "parse_resume_with_ai"
  /\ pc[Runner] = "upload_rank" =>
       /\ Len(run[Runner].job_description) = 1
       /\ Len(run[Runner].resumes) = Len(run[Runner].resume_files)
       /\ \A i \in 1..Len(run[Runner].resume_files) :
            LET filename == secure_filename(run[Runner].resume_files[i]) IN
            /\ run[Runner].resumes[i].id = PyStr(Replace(filename, <<".">>, <<"_">>))
            /\ run[Runner].responses[i] \in {Raises, Says(<<Prose>>)}
                 => run[Runner].resumes[i] = FallbackResume(ResumeText, filename)
            /\ run[Runner].responses[i] = Parseable
                 => run[Runner].resumes[i].name = PyStr(<<"A", "n", "n">>)

\* The job call and the first resume call failed, the second resume was
\* extracted, and rank_resumes is about to be called with both records.
RankAfterFailedExtractions ==
  /\ pc[Runner] = "upload_rank"
  /\ run[Runner].job_description = <<FallbackJob(JobText)>>
  /\ Len(run[Runner].resumes) = 2
  /\ run[Runner].responses = <<Raises, Parseable>>

\* C9: an upload whose rank_resumes call raised or returned a malformed
\* result ends in the error page and has created no session.
ScoringFailureCreatesNothing ==
  (ret.op = "upload_files" /\ ret.run.scoring \in {"raised", "malformed"}) =>
    /\ ret.status = "error"
    /\ ret.id \notin Ids(sessions)
    /\ ret.arg.session_id \notin Ids(sessions)

\* C10 as stated: on an id with no session row, get_session_results and
\* get_top_candidates fail, and hide_session, unhide_session and
\* delete_session return without error.
Missing(session_id) == session_id \notin Range(issued)
LookupsFailOnMissingId ==
  /\ (ret.op \in {"get_session_results", "get_top_candidates"} /\ Missing(ret.arg.session_id))
       => ret.status = "raised"
  /\ (ret.op \in {"hide_session", "unhide_session", "delete_session"}
        /\ Missing(ret.arg.session_id))
       => ret.status = "ok"

\* C10 amended: on an id with no session row, get_session_results fails and
\* hands back nothing, get_top_candidates returns the empty list without
\* error, and hide_session, unhide_session and delete_session return without
\* error.
MissingIdOutcomes ==
  /\ (ret.op = "get_session_results" /\ Missing(ret.arg.session_id))
       => ret.status = "raised" /\ ret.session = <<>> /\ ret.results = <<>>
  /\ (ret.op = "get_top_candidates" /\ Missing(ret.arg.session_id))
       => ret.status = "ok" /\ ret.results = <<>>
  /\ (ret.op \in {"hide_session", "unhide_session", "delete_session"}
        /\ Missing(ret.arg.session_id))
       => ret.status = "ok"

\* get_top_candidates has returned for an id no session ever had, with
\* other sessions and their results in the store.
TopCandidatesOfMissingId ==
  /\ ret.op = "get_top_candidates"
  /\ Missing(ret.arg.session_id)
  /\ results # {}

\* The types of the fields of a Resume and of a JobDescription.
ResumeTypes ==
  [id |-> "str", name |-> "str", email |-> "str", phone |-> "str", skills |-> "list",
   experience |-> "list", education |-> "list", summary |-> "str"]
JobTypes ==
  [title |-> "str", company |-> "str", required_skills |-> "list",
   preferred_skills |-> "list", experience_years |-> "int", responsibilities |-> "list",
   qualifications |-> "list", description |-> "str"]
Extracted ==
  IF ret.op = "parse_resume_with_ai" THEN ret.run.resumes[1] ELSE ret.run.job_description[1]
FieldTypes == IF ret.op = "parse_resume_with_ai" THEN ResumeTypes ELSE JobTypes
Answer == ret.run.responses[1]
Fallback ==
  IF ret.op = "parse_resume_with_ai"
  THEN FallbackResume(ret.run.text, ret.run.resume_files[1])
  ELSE FallbackJob(ret.run.text)
IsExtraction == ret.op \in {"parse_resume_with_ai", "parse_job_description_with_ai"}

\* C11: an answer that decodes as JSON but is no object, or has a value of
\* the wrong type in a field, gives the fallback record: the record returned
\* never carries a value of another type than its field's (null apart, see
\* C12).
WrongTypesFallBack ==
  IsExtraction =>
    /\ Answer \in {NoObject, JsonNull, StrForList, ListForStr, WordForYears}
         => Extracted = Fallback
    /\ \A f \in DOMAIN FieldTypes : Extracted[f].type \in {FieldTypes[f], "NoneType"}

\* C12: every field of the record an extractor returns holds a value that is
\* not null: for an answer that is a JSON object, fields omitted or null
\* included, and for every other answer, where the record is the fallback
\* record.
RecordsHaveNoNulls ==
  IsExtraction =>
    /\ DOMAIN Extracted = DOMAIN FieldTypes
    /\ \A f \in DOMAIN FieldTypes : Extracted[f] # None
    /\ Answer \in {Raises, Says(<<Prose>>), NoObject, JsonNull} => Extracted = Fallback

\* C19: when the extraction of a resume fails, the record returned has the
\* filename with every '.' replaced by '_' as its id, the filename without
\* its extension and with '_' replaced by ' ' as its name, empty email,
\* phone, skills, experience and education, and the first SummaryLen
\* characters of the text (all of it when it is shorter) as its summary:
\* for every filename with an allowed extension and every text.
Stem(filename) == SubSeq(filename, 1, Len(filename) - Len(AfterLastDot(filename)) - 1)
FallbackRecordOfSpec ==
  (ret.op = "parse_resume_with_ai" /\ Answer \in {Raises, Says(<<Prose>>)}) =>
    LET filename == ret.run.resume_files[1]
        text == ret.run.text
        resume == ret.run.resumes[1]
    IN /\ allowed_file(filename)
       /\ resume.id = PyStr(Replace(filename, <<".">>, <<"_">>))
       /\ resume.name = PyStr(Replace(Stem(filename), <<"_">>, <<" ">>))
       /\ resume.email = PyStr(<<>>) /\ resume.phone = PyStr(<<>>)
       /\ resume.skills = PyList(<<>>) /\ resume.experience = PyList(<<>>)
       /\ resume.education = PyList(<<>>)
       /\ resume.summary = PyStr(IF Len(text) <= SummaryLen THEN text
                                 ELSE SubSeq(text, 1, SummaryLen))

\* C13: hide_session on a session that exists leaves it hidden; a hidden
\* session stays hidden until unhide_session of its id commits or its row is
\* removed; and get_all_sessions returns every session with include_hidden
\* and exactly the sessions that are not hidden without it.
Returns(p, label) == pc[p] = label /\ pc'[p] = "idle"
HiddenFromDefaultList ==
  /\ [](ret.op = "get_all_sessions" =>
          Range(ret.sessions) = IF ret.arg.include_hidden THEN sessions
                                ELSE {s \in sessions : s.is_hidden = 0})
  /\ [][\A p \in Procs : Returns(p, "hide_commit") =>
          \A s \in sessions :
            s.id = arg[p].session_id => [s EXCEPT !.is_hidden = 1] \in sessions']_vars
  /\ [][\A s \in sessions : s.is_hidden = 1 =>
          \/ s \in sessions'
          \/ s.id \notin Ids(sessions')
          \/ \E p \in Procs : Returns(p, "unhide_commit") /\ arg[p].session_id = s.id]_vars

\* The default list has been returned without a session that is hidden,
\* and with the one that is not.
ListedWithoutHidden ==
  /\ ret.op = "get_all_sessions" /\ ~ret.arg.include_hidden
  /\ \E s \in sessions : s.is_hidden = 1
  /\ ret.sessions # <<>>

\* C14: clear_all_history leaves no session row and no result row, hidden or
\* not, and a get_all_sessions(True) that reads the store as clear_all_history
\* left it returns the empty list.
ClearAllEmptiesStore ==
  /\ [][\A p \in Procs : Returns(p, "clear_commit") =>
          /\ sessions' = {} /\ results' = {}
          /\ ret'.op = "clear_all_history" /\ ret'.status = "ok"]_vars
  /\ []((ret.op = "get_all_sessions" /\ ret.arg.include_hidden /\ sessions = {})
          => ret.sessions = <<>>)

\* clear_all_history has run its DELETEs on a store with a hidden session, a
\* visible one and results, and is about to commit.
ClearingHiddenAndVisible ==
  /\ \E p \in Procs : pc[p] = "clear_commit"
  /\ \E s \in sessions : s.is_hidden = 1
  /\ \E s \in sessions : s.is_hidden = 0
  /\ results # {}

\* C15: get_top_candidates(session_id, n) on a session with c results
\* returns, without error and in ascending rank, the n records of lowest
\* rank when 1 <= n <= c, all c records when n > c, and no record beyond
\* position n, that is none, when n <= 0.
TopCandidatesIsPrefix ==
  (ret.op = "get_top_candidates" /\ ret.arg.session_id \in Ids(sessions)) =>
    LET mine == ResultsOf(results, ret.arg.session_id)
        n == ret.arg.top_n
    IN /\ ret.status = "ok"
       /\ Len(ret.results) = IF n <= 0 THEN 0 ELSE Min(n, Cardinality(mine))
       /\ \A i \in 1..Len(ret.results) : ret.results[i] \in mine /\ ret.results[i].rank = i

\* C18: hide_session and unhide_session return without error, leave the
\* session of that id (if there is one) with the flag set, respectively
\* cleared, and change nothing else; on a session whose flag is already so,
\* and on an id without session, they change nothing at all.
HideIsIdempotent ==
  [][\A p \in Procs : (Returns(p, "hide_commit") \/ Returns(p, "unhide_commit")) =>
       LET v == IF pc[p] = "hide_commit" THEN 1 ELSE 0
           mine == {s \in sessions : s.id = arg[p].session_id}
       IN /\ ret'.status = "ok"
          /\ results' = results
          /\ sessions' = (sessions \ mine) \cup {[s EXCEPT !.is_hidden = v] : s \in mine}
          /\ (\A s \in mine : s.is_hidden = v) => sessions' = sessions]_vars

\* A second hide_session of a session that is hidden already has run its
\* UPDATE and is about to commit.
HidingHidden ==
  \E p \in Procs :
    /\ pc[p] = "hide_commit"
    /\ \E s \in sessions : s.id = arg[p].session_id /\ s.is_hidden = 1

\* C16: save_session persists the element at position i of the list it is
\* given with rank i, so the ranks of a session are exactly
\* 1..total_candidates; and get_session_results of the session upload_files
\* has just saved returns the records in the order of the list upload_files
\* is about to return.
PersistedAsReturned ==
  /\ \A s \in sessions :
       /\ {r.rank : r \in ResultsOf(results, s.id)} = 1..s.total_candidates
       /\ Cardinality(ResultsOf(results, s.id)) = s.total_candidates
  /\ (/\ ret.op = "get_session_results" /\ ret.status = "ok"
      /\ pc[Runner] = "upload_cleanup"
      /\ arg[Runner].session_id = ret.arg.session_id)
       => /\ Len(ret.results) = Len(run[Runner].ranked_results)
          /\ \A i \in 1..Len(ret.results) :
               /\ ret.results[i].rank = i
               /\ ret.results[i].resume_id = run[Runner].ranked_results[i].resume_id
               /\ ret.results[i].candidate_name = run[Runner].ranked_results[i].candidate_name
               /\ ret.results[i].overall_score = run[Runner].ranked_results[i].overall_score

\* The session just saved has been looked up, its two results in an order
\* that is not the order of their scores.
LookedUpAfterSave ==
  /\ ret.op = "get_session_results" /\ ret.status = "ok"
  /\ pc[Runner] = "upload_cleanup"
  /\ arg[Runner].session_id = ret.arg.session_id
  /\ Len(ret.results) = 2
  /\ ret.results[1].overall_score < ret.results[2].overall_score

\* C17: a request without job description (no pasted text and no job file)
\* or without resume files is turned down with an error message before
\* anything is extracted, scored or saved, and the store is left as it was;
\* every upload that gets further has a job text and at least one resume
\* file.
NoJob(request) ==
  /\ Strip(request.job_description_text, {" "}) = <<>>
  /\ ~request.job_description.present \/ request.job_description.filename = <<>>
NoResumes(request) ==
  ~request.has_resumes \/ request.resumes = <<>> \/ request.resumes[1] = <<>>
ValidationMessages ==
  {"Job description file type not supported", "Please provide a job description",
   "Please upload resume files", "Please select at least one resume file",
   "Resume file type not supported"}
HasInputs(r) == r.job_text # <<>> /\ r.resume_files # <<>> /\ r.resume_files[1] # <<>>
ValidationStopsRun ==
  /\ [](run[Runner] # NoRun => HasInputs(run[Runner]))
  /\ []((ret.op = "upload_files" /\ ret.run.request = <<>>) => HasInputs(ret.run))
  /\ []((ret.op = "upload_files" /\ ret.run.request # <<>>) =>
          /\ ret.status = "error" /\ ret.id = 0
          /\ ret.run.called = <<>> /\ ret.run.job_description = <<>>
          /\ ret.run.resumes = <<>> /\ ret.run.scoring = "none"
          /\ ret.error \in ValidationMessages \/ ret.run.raised_in = "parse_file"
          /\ NoJob(ret.run.request[1]) => ret.error = "Please provide a job description")
  /\ [][(ret'.op = "upload_files" /\ ret'.run.request # <<>>)
          => UNCHANGED <<sessions, results, sqlite_sequence, lock, tx>>]_vars

\* A request with resume files and no job description has been turned down,
\* with a session and its results in the store.
TurnedDownWithoutJob ==
  /\ ret.op = "upload_files" /\ ret.run.request # <<>>
  /\ NoJob(ret.run.request[1])
  /\ ~NoResumes(ret.run.request[1])
  /\ sessions # {} /\ results # {}

\* C20: an upload that succeeds has called, in this order, the job
\* extractor once, the resume extractor once per resume file, in the order of
\* the files, rank_resumes once and save_session once; and no session row
\* is written before rank_resumes has returned.
Steps(n) ==
  <<"parse_job_description_with_ai">> \o [i \in 1..n |-> "parse_resume_with_ai"]
    \o <<"rank_resumes", "save_session">>
Scored(r) ==
  /\ r.scoring # "none"
  /\ Len(r.called) >= Len(r.resume_files) + 2
  /\ SubSeq(r.called, 1, Len(r.resume_files) + 2)
       = SubSeq(Steps(Len(r.resume_files)), 1, Len(r.resume_files) + 2)
RunStepOrder ==
  /\ []((ret.op = "upload_files" /\ ret.status = "ok") =>
          /\ ret.run.called = Steps(Len(ret.run.resume_files))
          /\ Len(ret.run.resumes) = Len(ret.run.resume_files)
          /\ \A i \in 1..Len(ret.run.resume_files) :
               ret.run.resumes[i].id =
                 PyStr(Replace(secure_filename(ret.run.resume_files[i]), <<".">>, <<"_">>))
          /\ Cardinality({s \in sessions : s.id = ret.id}) = 1)
  /\ [][(\/ ~(Ids(tx'.sessions) \subseteq Ids(tx.sessions) \cup Ids(sessions))
         \/ ~(Ids(sessions') \subseteq Ids(sessions)))
          => Scored(run[Runner])]_vars

\* An upload of two resumes has succeeded.
RunOfTwoSucceeded ==
  /\ ret.op = "upload_files" /\ ret.status = "ok" /\ ret.run.scoring = "ok"
  /\ Len(ret.run.resume_files) = 2

\* C22: no orphan results.  In every state that create, hide, unhide, delete
\* and clear-all reach, in whatever order their transactions commit, every
\* result row's session_id is the id of a session row that is there: in the
\* committed database and in the view of the connection that is writing.
NoOrphanResults ==
  /\ \A r \in results : r.session_id \in Ids(sessions)
  /\ lock # NoProc => \A r \in tx.results : r.session_id \in Ids(tx.sessions)

\* delete_session has removed a session that had been hidden, and the results
\* of another session are still there.
DeletedOneOfTwoWithResults ==
  /\ ret.op = "delete_session"
  /\ ret.arg.session_id \in deleted
  /\ results # {}
  /\ \E s \in sessions : s.is_hidden = 1

\* C21: a session that has been created is changed by hide_session and
\* unhide_session of its own id only, and then in its is_hidden flag only,
\* and it is removed by delete_session of its own id or clear_all_history
\* only.  In every step, a session row that is still there afterwards has the
\* job title, company, timestamp and total_candidates it had, and the same
\* result rows (ranks included); its flag differs only when hide or unhide of
\* its id commits; and a commit of hide or unhide changes no result row, no
\* counter and no other session row.
SessionFrame ==
  [][/\ \A s \in sessions :
          LET after == {t \in sessions' : t.id = s.id} IN
          /\ after = {} =>
                /\ lock # NoProc
                /\ \/ op[lock] = "delete_session" /\ arg[lock].session_id = s.id
                   \/ op[lock] = "clear_all_history"
          /\ \A t \in after :
                /\ after = {t}
                /\ [t EXCEPT !.is_hidden = s.is_hidden] = s
                /\ ResultsOf(results', s.id) = ResultsOf(results, s.id)
                /\ t.is_hidden # s.is_hidden =>
                      /\ lock # NoProc
                      /\ op[lock] \in {"hide_session", "unhide_session"}
                      /\ arg[lock].session_id = s.id
     /\ \A p \in Procs :
          (pc[p] \in {"hide_commit", "unhide_commit"} /\ pc'[p] = "idle") =>
            /\ results' = results
            /\ sqlite_sequence' = sqlite_sequence
            /\ Ids(sessions') = Ids(sessions)
            /\ \A s \in sessions : s.id # arg[p].session_id => s \in sessions']_vars

\* hide_session of session 1 has returned; sessions 1 and 2 both have their
\* results, 1 is hidden and 2 is not.
HiddenBesideAnother ==
  /\ ret.op = "hide_session"
  /\ ret.arg.session_id = 1
  /\ \E s, t \in sessions :
       /\ s.id = 1 /\ s.is_hidden = 1 /\ ResultsOf(results, 1) # {}
       /\ t.id = 2 /\ t.is_hidden = 0 /\ ResultsOf(results, 2) # {}

\* C23: save_session calls that run at the same time are given different
\* session ids, and the result rows under the id a call returns are exactly
\* the records that call supplied, one row per record with rank = its
\* position; no row that one call writes, committed or not yet, is under the
\* session id of another call.
SavedRows(session_id, supplied) ==
  /\ Cardinality(ResultsOf(results, session_id)) = Len(supplied)
  /\ \A i \in 1..Len(supplied) :
       \E r \in ResultsOf(results, session_id) :
         /\ r.rank = i
         /\ r.resume_id = supplied[i].resume_id
         /\ r.candidate_name = supplied[i].candidate_name
         /\ r.overall_score = supplied[i].overall_score
ConcurrentSavesKeepApart ==
  /\ \A i, j \in 1..Len(issued) : i # j => issued[i] # issued[j]
  /\ (ret.op = "save_session" /\ ret.status = "ok") =>
       /\ ret.id \notin Range(SubSeq(issued, 1, Len(issued) - 1))
       /\ SavedRows(ret.id, ret.arg.results)
  /\ \A p \in Procs :
       (pc[p] = "save_results" /\ op[p] = "save_session") =>
         /\ arg[p].session_id \notin Ids(sessions)
         /\ \A r \in ResultsOf(tx.results, arg[p].session_id) :
              r.candidate_name = Named(p).candidate_name
  /\ \A s \in sessions :
       \A r1, r2 \in ResultsOf(results, s.id) : r1.candidate_name = r2.candidate_name

\* A save_session of two records has returned, and during it (after it had
\* connected, before it committed) the other request's save_session of two
\* records was given its id; both sessions are there.
SavedDuringAnotherSave ==
  /\ ret.op = "save_session" /\ ret.status = "ok"
  /\ Len(ret.arg.results) = 2
  /\ Len(issued) = ret.arg.issued_before + 2
  /\ \E s \in sessions :
       /\ s.id # ret.id
       /\ s.total_candidates = 2
       /\ \E r \in ResultsOf(results, s.id) :
            r.candidate_name # ret.arg.results[1].candidate_name

====
